---- MODULE Spec2Model ----
(***************************************************************************)
(* Language-identification notebooks: the glue code of                     *)
(*   V3_Fine_Tuning_BERT_for_Language_Identification.ipynb  (Pipeline A)   *)
(*   LR_TFIDF_Word2Vec_GridSearch.ipynb                 (Pipelines B, C)   *)
(* Sampler, label indexer, predictor and evaluator as state machines.      *)
(*                                                                         *)
(* Conventions.  A string of the program is a sequence of one-character    *)
(* strings (so strip and sorted can be computed); Python's 0-based list    *)
(* indices are kept as values and shifted by one on access.  A Python      *)
(* name that has not been assigned yet holds Unset, else Bound(value).      *)
(***************************************************************************)
EXTENDS Integers, Sequences, FiniteSets, TLC

VARIABLES
    files,        \* the four input files: path -> file.readlines()
    rng,          \* hidden state of the shared module-level `random` generator
    first_call,   \* arguments, locals and outcome of the first load_data_sample call
    later_call,   \* ... and of the most recent call after the first
    X_train, y_train, X_test, y_test,  \* notebook globals set by the load_datasets cell
    all_labels, lang2idx,              \* globals of the label-indexer cell
    train_labels, test_labels,         \* globals of the dataset cell
    unique_labels, label_to_index, index_to_language,  \* globals of the decoding cell
    last_cell,    \* the cell or call executed last, with the exception it ended with
    word2vec,     \* global the embedding predictor reads: token -> vector
    model_tfidf, model_word2vec,       \* the trained artifacts of Pipelines B and C
    prediction,   \* arguments and outcome of the last predict_language call
    evaluation,   \* arguments and outcome of the last predict_and_evaluate call
    tokenizer, bert_model,             \* Pipeline A: globals tokenizer and model (the model being tuned)
    train_dataset, eval_dataset,       \* LanguageDataset objects of the dataset cell
    trainer,      \* the Trainer object: the datasets it was built with
    evaluation_results,                \* result of trainer.evaluate()
    disk,         \* files the session wrote or found: path -> content
    loaded_model, loaded_tokenizer,    \* reloaded from ./final_model
    predicted_language,                \* result of the predict cell
    grid_search,  \* Pipeline B: the fitted GridSearchCV object
    loaded_model_tfidf,                \* Pipeline B: reloaded from model_tfidf.joblib
    stdout        \* lines train_and_tune_model printed in the last training cell

sampler_vars == <<files, rng, first_call, later_call>>
dataset_vars == <<X_train, y_train, X_test, y_test>>
label_vars == <<all_labels, lang2idx, train_labels, test_labels,
                unique_labels, label_to_index, index_to_language, last_cell>>
eval_vars == <<word2vec, model_tfidf, model_word2vec, prediction, evaluation>>
pipeline_vars == <<tokenizer, bert_model, train_dataset, eval_dataset, trainer,
                   evaluation_results, disk, loaded_model, loaded_tokenizer,
                   predicted_language, grid_search, loaded_model_tfidf, stdout>>
vars == <<sampler_vars, dataset_vars, label_vars, eval_vars, pipeline_vars>>

\* ------------------------------------------------------------------ bounds
MaxLines == 3      \* longest file, in lines
MaxLabels == 2     \* longest list of labels
MaxEval == 2       \* largest evaluation split, in samples

\* ------------------------------------------------------- values and helpers
\* A Python name is modelled by <<>> while it is unassigned and by <<v>> once
\* it holds the value v.
Unset == <<>>
Bound(v) == <<v>>
IsSet(g) == g # <<>>
Val(g) == g[1]

\* Python's None as a value: a sequence that is no string of characters.
None == <<"<None>">>
\* The "raised" field of a call that returned normally.
NoException == "<no exception>"

Range(s) == {s[i] : i \in DOMAIN s}

SeqsUpTo(S, n) == UNION {[1..k -> S] : k \in 0..n}

\* ------------------------------------------------------------ str.strip()
Whitespace == {" ", "\n", "\t"}

RECURSIVE lstrip(_)
lstrip(s) ==
    IF s = <<>> THEN <<>>
    ELSE IF Head(s) \in Whitespace THEN lstrip(Tail(s)) ELSE s

RECURSIVE rstrip(_)
rstrip(s) ==
    IF s = <<>> THEN <<>>
    ELSE IF s[Len(s)] \in Whitespace THEN rstrip(SubSeq(s, 1, Len(s) - 1)) ELSE s

strip(s) == rstrip(lstrip(s))

\* ------------------------------------------------- the `random` generator
\* The module-level generator of `random` is one hidden state shared by the
\* whole notebook.  Its state space is abstracted to the 8 states of a
\* full-period congruential generator; seed, getrandbits and the rejection
\* loop of _randbelow keep CPython's structure.
RngStates == 0..7

RngNext(st) == (5 * st + 3) % 8

seed(a) == a % 8

bit_length(n) == IF n = 0 THEN 0 ELSE IF n < 2 THEN 1 ELSE IF n < 4 THEN 2 ELSE 3

\* getrandbits(k): advance the generator, return its k high bits
getrandbits(st, k) ==
    LET st1 == RngNext(st)
    IN  [state |-> st1, value |-> st1 \div (2 ^ (3 - k))]

RECURSIVE randbelow(_, _)
randbelow(st, n) ==
    LET r == getrandbits(st, bit_length(n))
    IN  IF r.value < n THEN r ELSE randbelow(r.state, n)

\* random.sample(range(n), k), pool branch (n <= setsize = 21):
\*   for i in range(k): j = randbelow(n-i); result[i] = pool[j];
\*                      pool[j] = pool[n-i-1]
\* A plausible slip: the chosen element stays in the pool (sampling with
\* replacement).
RECURSIVE sample_loop_replace(_, _, _, _, _, _)
sample_loop_replace(st, pool, n, k, i, result) ==
    IF i = k THEN [state |-> st, raised |-> NoException, value |-> result]
    ELSE LET r == randbelow(st, n)
         IN  sample_loop_replace(r.state, pool, n, k, i + 1,
                                 Append(result, pool[r.value + 1]))

RECURSIVE sample_loop(_, _, _, _, _, _)
sample_loop(st, pool, n, k, i, result) ==
    IF i = k THEN [state |-> st, raised |-> NoException, value |-> result]
    ELSE LET r == randbelow(st, n - i)
             j == r.value
         IN  sample_loop(r.state,
                         [pool EXCEPT ![j + 1] = pool[n - i]],
                         n, k, i + 1,
                         Append(result, pool[j + 1]))

\* A plausible slip: a sample larger than the population is cut down to it.
sample_clamp(st, n, k) ==
    IF k < 0
    THEN [state |-> st, raised |-> "ValueError", value |-> <<>>]
    ELSE sample_loop(st, [p \in 1..n |-> p - 1], n, IF k > n THEN n ELSE k, 0, <<>>)

sample(st, n, k) ==
    IF ~(0 <= k /\ k <= n)
    THEN [state |-> st, raised |-> "ValueError", value |-> <<>>]
    ELSE sample_loop(st, [p \in 1..n |-> p - 1], n, k, 0, <<>>)


\* ------------------------------------------------------------- input files
train_data_path   == "train/x_train.txt"
train_labels_path == "train/y_train.txt"
test_data_path    == "test/x_test.txt"
test_labels_path  == "test/y_test.txt"

Paths == {train_data_path, train_labels_path, test_data_path, test_labels_path}

\* One record per line; the lines of a text file are pairwise distinct also
\* after strip, the label lines repeat.
TextCorpus ==
    << <<"h", "i", "\n">>, <<" ", "y", "o", "\n">>, <<"o", "k", " ", "\n">>,
       <<"n", "o", "\n">>, <<"\t", "s", "i", "\n">>, <<"j", "a">> >>

LabelCorpus ==
    << <<"e", "n", "\n">>, <<"f", "r", "\n">>, <<" ", "e", "n", "\n">>,
       <<"d", "e", " ", "\n">>, <<"f", "r", "\n">>, <<"d", "e">> >>

\* A text file of up to MaxLines lines with its label file, which has as many
\* lines or lacks the last one.
FilePairs ==
    UNION {{<<SubSeq(TextCorpus, 1, n), SubSeq(LabelCorpus, 1, m)>> :
                m \in {n, n - 1} \cap Nat} : n \in 0..MaxLines}

NoFiles == <<(<<>>), (<<>>)>>

FilesOf(train, test) ==
    [p \in Paths |->
        IF p = train_data_path THEN train[1]
        ELSE IF p = train_labels_path THEN train[2]
        ELSE IF p = test_data_path THEN test[1]
        ELSE test[2]]

Seeds == {42, 7}

SampleSizes == 0..(MaxLines + 1)

\* ------------------------------------------------------- load_data_sample
\* lines: file.readlines(); st: the generator's state at the call.
load_data_sample_noseed(lines, st, sample_size, random_state) ==
    LET s == sample(st, Len(lines), sample_size)
    IN  [state           |-> s.state,
         raised          |-> s.raised,
         sampled_indices |-> s.value,
         value           |-> [i \in 1..Len(s.value) |-> strip(lines[s.value[i] + 1])]]

load_data_sample(lines, st, sample_size, random_state) ==
    LET s == sample(seed(random_state), Len(lines), sample_size)
    IN  [state           |-> s.state,
         raised          |-> s.raised,
         sampled_indices |-> s.value,
         value           |-> [i \in 1..Len(s.value) |-> strip(lines[s.value[i] + 1])]]

CallRecord(filepath, sample_size, random_state, r) ==
    [filepath        |-> filepath,
     sample_size     |-> sample_size,
     random_state    |-> random_state,
     raised          |-> r.raised,
     sampled_indices |-> r.sampled_indices,
     sampled_lines   |-> r.value,
     rng_after       |-> r.state]

\* other_draws: the generator was not in the state the previous
\* load_data_sample call left it in, i.e. other code drew from it in between
SamplerCall(rec, draws) == [call |-> rec, other_draws |-> draws]

\* A cell calls load_data_sample(filepath, sample_size, random_state).
LoadDataSampleCall(filepath, sample_size, random_state) ==
    \E r \in {load_data_sample(files[filepath], rng, sample_size, random_state)} :
    \E rec \in {CallRecord(filepath, sample_size, random_state, r)} :
        /\ rng' = r.state
        /\ IF first_call = Unset
           THEN /\ first_call' = Bound(SamplerCall(rec, FALSE))
                /\ UNCHANGED later_call
           ELSE /\ later_call' = Bound(SamplerCall(rec,
                       rng # (IF later_call = Unset THEN Val(first_call)
                              ELSE Val(later_call)).call.rng_after))
                /\ UNCHANGED first_call
        /\ UNCHANGED <<pipeline_vars, files, dataset_vars, label_vars, eval_vars>>

\* Any other code of the session draws from the shared generator.
RandomCall ==
    /\ rng' = RngNext(rng)
    /\ UNCHANGED <<pipeline_vars, files, first_call, later_call, dataset_vars, label_vars, eval_vars>>

\* ------------------------------------------------------------ load_datasets
\* The four load_data_sample calls in program order, each with the default
\* random_state = 42; an exception of any call propagates.
DefaultRandomState == 42

\* A plausible slip: the label files sampled under another seed than the texts.
load_datasets_label_seed(fs, st, train_sample_size, test_sample_size) ==
    LET a == load_data_sample(fs[train_data_path], st, train_sample_size, DefaultRandomState)
        b == load_data_sample(fs[train_labels_path], a.state, train_sample_size, DefaultRandomState + 1)
        c == load_data_sample(fs[test_data_path], b.state, test_sample_size, DefaultRandomState)
        d == load_data_sample(fs[test_labels_path], c.state, test_sample_size, DefaultRandomState + 1)
    IN  IF a.raised # NoException \/ b.raised # NoException \/ c.raised # NoException \/ d.raised # NoException
        THEN [state |-> d.state, raised |-> "ValueError", value |-> <<>>]
        ELSE [state |-> d.state, raised |-> NoException,
              value |-> <<a.value, b.value, c.value, d.value>>]

load_datasets(fs, st, train_sample_size, test_sample_size) ==
    LET a == load_data_sample(fs[train_data_path], st, train_sample_size, DefaultRandomState)
        b == load_data_sample(fs[train_labels_path], a.state, train_sample_size, DefaultRandomState)
        c == load_data_sample(fs[test_data_path], b.state, test_sample_size, DefaultRandomState)
        d == load_data_sample(fs[test_labels_path], c.state, test_sample_size, DefaultRandomState)
        fail(x) == [state |-> x.state, raised |-> x.raised, value |-> <<>>]
    IN  IF a.raised # NoException THEN fail(a)
        ELSE IF b.raised # NoException THEN fail(b)
        ELSE IF c.raised # NoException THEN fail(c)
        ELSE IF d.raised # NoException THEN fail(d)
        ELSE [state |-> d.state, raised |-> NoException,
              value |-> <<a.value, b.value, c.value, d.value>>]

\* The cell  X_train, y_train, X_test, y_test = load_datasets(...): the
\* globals are assigned only when the call returns.
LoadDatasetsCell(train_sample_size, test_sample_size) ==
    \E r \in {load_datasets(files, rng, train_sample_size, test_sample_size)} :
        /\ rng' = r.state
        /\ IF r.raised = NoException
           THEN /\ X_train' = Bound(r.value[1])
                /\ y_train' = Bound(r.value[2])
                /\ X_test'  = Bound(r.value[3])
                /\ y_test'  = Bound(r.value[4])
           ELSE UNCHANGED dataset_vars
        /\ UNCHANGED <<pipeline_vars, files, first_call, later_call, label_vars, eval_vars>>

\* --------------------------------------------------------- specifications
NoCell == [cell |-> "none", raised |-> NoException, labels |-> <<>>, value |-> <<>>]

DatasetsUnset ==
    /\ X_train = Unset /\ y_train = Unset /\ X_test = Unset /\ y_test = Unset

LabelsUnset ==
    /\ all_labels = Unset /\ lang2idx = Unset
    /\ train_labels = Unset /\ test_labels = Unset
    /\ unique_labels = Unset /\ label_to_index = Unset /\ index_to_language = Unset
    /\ last_cell = NoCell

EvalUnset ==
    /\ word2vec = Unset /\ model_tfidf = Unset /\ model_word2vec = Unset
    /\ prediction = Unset /\ evaluation = Unset

\* A fresh runtime holds none of the artifact files.
final_model_path == "./final_model"
tfidf_joblib == "model_tfidf.joblib"
word2vec_joblib == "model_word2vec.joblib"
ArtifactPaths == {final_model_path, tfidf_joblib, word2vec_joblib}
EmptyDisk == [p \in ArtifactPaths |-> Unset]

PipelineAUnset ==
    /\ train_dataset = Unset /\ eval_dataset = Unset /\ trainer = Unset
    /\ evaluation_results = Unset
    /\ loaded_model = Unset /\ loaded_tokenizer = Unset
    /\ predicted_language = Unset

PipelineBUnset == grid_search = Unset /\ loaded_model_tfidf = Unset /\ stdout = <<>>

\* Before the cell that loads the pretrained tokenizer and model.
PipelineUnset ==
    /\ tokenizer = Unset /\ bert_model = Unset
    /\ disk = EmptyDisk
    /\ PipelineAUnset
    /\ PipelineBUnset

\* Sampler alone: repeated load_data_sample calls on the two training files.
InitSample ==
    /\ files \in {FilesOf(train, NoFiles) : train \in FilePairs}
    /\ rng \in RngStates
    /\ first_call = Unset
    /\ later_call = Unset
    /\ DatasetsUnset
    /\ LabelsUnset
    /\ EvalUnset
    /\ PipelineUnset

NextSample ==
    \/ \E p \in {train_data_path, train_labels_path}, n \in SampleSizes, s \in Seeds :
          LoadDataSampleCall(p, n, s)
    \/ RandomCall

SpecSample == InitSample /\ [][NextSample]_vars

\* The load_datasets cell over the four files.
InitDatasets ==
    /\ files \in {FilesOf(train, test) : train \in FilePairs, test \in FilePairs}
    /\ rng \in RngStates
    /\ first_call = Unset
    /\ later_call = Unset
    /\ DatasetsUnset
    /\ LabelsUnset
    /\ EvalUnset
    /\ PipelineUnset

NextDatasets ==
    \/ \E tr \in SampleSizes, te \in SampleSizes : LoadDatasetsCell(tr, te)
    \/ RandomCall

SpecDatasets == InitDatasets /\ [][NextDatasets]_vars

\* ------------------------------------------------- tokenizer (Pipeline A)
\* BertTokenizer.from_pretrained: a vocabulary, token -> position.  [CLS] and
\* [SEP] are left out; they are the same for every text.
PadToken == <<"[PAD]">>
UnkToken == <<"[UNK]">>
PretrainedTokenizer ==
    [vocab |-> <<PadToken, UnkToken, <<"h", "i">>, <<"y", "o">>, <<"o", "k">>, <<"n", "o">>>>]

max_length == 512
\* vocab.txt: the id of a token is its 0-based line; an unknown word has the
\* id of [UNK]
PositionOf(vocab, token) == (CHOOSE i \in 1..Len(vocab) : vocab[i] = token) - 1

TokenId(tok, token) ==
    IF \E i \in 1..Len(tok.vocab) : tok.vocab[i] = token
    THEN PositionOf(tok.vocab, token)
    ELSE PositionOf(tok.vocab, UnkToken)

\* BasicTokenizer: the words between whitespace
RECURSIVE whitespace_tokenize(_, _, _)
whitespace_tokenize(text, word, tokens) ==
    IF text = <<>>
    THEN IF word = <<>> THEN tokens ELSE Append(tokens, word)
    ELSE IF Head(text) \in Whitespace
         THEN whitespace_tokenize(Tail(text), <<>>,
                                  IF word = <<>> THEN tokens ELSE Append(tokens, word))
         ELSE whitespace_tokenize(Tail(text), Append(word, Head(text)), tokens)

\* truncation=True, max_length=512
truncate(ids) == SubSeq(ids, 1, IF Len(ids) > max_length THEN max_length ELSE Len(ids))

convert_tokens_to_ids(tok, text) ==
    LET tokens == whitespace_tokenize(text, <<>>, <<>>)
    IN  truncate([i \in 1..Len(tokens) |-> TokenId(tok, tokens[i])])

Longest(seqs) ==
    IF seqs = <<>> THEN 0
    ELSE CHOOSE n \in {Len(seqs[i]) : i \in 1..Len(seqs)} :
            \A i \in 1..Len(seqs) : Len(seqs[i]) <= n

\* tokenizer(texts, padding=True, truncation=True, max_length=512): every
\* row padded to the longest of the batch, the mask 1 on the real tokens
tokenizer_call(tok, texts) ==
    LET ids == [i \in 1..Len(texts) |-> convert_tokens_to_ids(tok, texts[i])]
        n   == Longest(ids)
    IN  [input_ids |->
            [i \in 1..Len(texts) |->
                [j \in 1..n |-> IF j <= Len(ids[i]) THEN ids[i][j]
                                ELSE TokenId(tok, PadToken)]],
         attention_mask |->
            [i \in 1..Len(texts) |->
                [j \in 1..n |-> IF j <= Len(ids[i]) THEN 1 ELSE 0]]]

\* encode_texts(texts), called with the argument list args; it takes one
\* argument and reads the global tokenizer.
encode_texts(args) ==
    IF Len(args) # 1 THEN [raised |-> "TypeError", value |-> None]
    ELSE IF ~IsSet(tokenizer) THEN [raised |-> "NameError", value |-> None]
    ELSE [raised |-> NoException, value |-> tokenizer_call(Val(tokenizer), args[1])]

\* LanguageDataset(encodings, labels); len(dataset) is len(labels)
LanguageDataset(encodings, labels) == [encodings |-> encodings, labels |-> labels]

\* torch.tensor(data): a tensor holding a copy of data
torch_tensor(data) == [tensor |-> data]

\* LanguageDataset.__len__
LanguageDataset_len(self) == Len(self.labels)

\* A plausible slip: the label of the item before (Python's index -1 is the
\* last element).
LanguageDataset_getitem_shifted(self, idx) ==
    IF \E key \in DOMAIN self.encodings : idx >= Len(self.encodings[key])
    THEN [raised |-> "IndexError", value |-> None]
    ELSE [raised |-> NoException,
          value  |-> [key \in DOMAIN self.encodings |->
                         torch_tensor(self.encodings[key][idx + 1])]
                     @@ [labels |-> torch_tensor(self.labels[IF idx = 0 THEN Len(self.labels)
                                                             ELSE idx])]]

\* LanguageDataset.__getitem__(idx), idx >= 0: the idx-th entry of every
\* field of the encodings and the idx-th label; IndexError past the end of
\* either.
LanguageDataset_getitem(self, idx) ==
    IF \/ \E key \in DOMAIN self.encodings : idx >= Len(self.encodings[key])
       \/ idx >= Len(self.labels)
    THEN [raised |-> "IndexError", value |-> None]
    ELSE [raised |-> NoException,
          value  |-> [key \in DOMAIN self.encodings |->
                         torch_tensor(self.encodings[key][idx + 1])]
                     @@ [labels |-> torch_tensor(self.labels[idx + 1])]]

\* ------------------------------------------------------------ label indexer
\* Python orders str by code point; Chars lists the characters of the model in
\* code-point order.
Chars == <<"\t", "\n", " ", "a", "d", "e", "f", "i", "j", "k", "n", "o", "r", "s", "x", "y">>

Ord(c) == CHOOSE i \in 1..Len(Chars) : Chars[i] = c

\* str.__lt__
RECURSIVE StrLess(_, _)
StrLess(a, b) ==
    IF b = <<>> THEN FALSE
    ELSE IF a = <<>> THEN TRUE
    ELSE IF Head(a) # Head(b) THEN Ord(Head(a)) < Ord(Head(b))
    ELSE StrLess(Tail(a), Tail(b))

\* sorted(S) of a set of str
RECURSIVE sorted(_)
sorted(S) ==
    IF S = {} THEN <<>>
    ELSE LET m == CHOOSE x \in S : \A y \in S \ {x} : StrLess(x, y)
         IN  <<m>> \o sorted(S \ {m})

\* {lang: idx for idx, lang in enumerate(seq, start)}: a later occurrence of a
\* key overwrites an earlier one
dict_of_enumerate(seq, start) ==
    [l \in Range(seq) |->
        (CHOOSE i \in 1..Len(seq) :
            seq[i] = l /\ \A j \in (i + 1)..Len(seq) : seq[j] # l) - 1 + start]

\* all_labels = sorted(set(y_train) | set(y_test))
all_labels_train_only(ytr, yte) == sorted(Range(ytr))

all_labels_of(ytr, yte) == sorted(Range(ytr) \cup Range(yte))

\* lang2idx = {lang: idx for idx, lang in enumerate(all_labels)}
lang2idx_from_one(labels) == dict_of_enumerate(labels, 1)

lang2idx_of(labels) == dict_of_enumerate(labels, 0)

\* A plausible slip: labels that are no key are skipped instead of raising.
RECURSIVE known_indices(_, _)
known_indices(m, labels) ==
    IF labels = <<>> THEN <<>>
    ELSE IF Head(labels) \in DOMAIN m
         THEN <<m[Head(labels)]>> \o known_indices(m, Tail(labels))
         ELSE known_indices(m, Tail(labels))

encode_labels_skip(m, labels) ==
    [raised |-> NoException, value |-> known_indices(m, labels)]

\* encode_labels(labels) with the global lang2idx = m: lang2idx[lang] raises
\* KeyError for a lang that is no key
encode_labels(m, labels) ==
    IF \E i \in 1..Len(labels) : labels[i] \notin DOMAIN m
    THEN [raised |-> "KeyError", value |-> <<>>]
    ELSE [raised |-> NoException, value |-> [i \in 1..Len(labels) |-> m[labels[i]]]]

\* {idx: label for label, idx in label_to_index.items()}
invert(m) == [i \in {m[l] : l \in DOMAIN m} |-> CHOOSE l \in DOMAIN m : m[l] = i]

Cell(name, raised, labels, value) ==
    [cell |-> name, raised |-> raised, labels |-> labels, value |-> value]

\* The cell defining all_labels, lang2idx and encode_labels.
LabelIndexerCell ==
    /\ IsSet(y_train) /\ IsSet(y_test)
    /\ \E al \in {all_labels_of(Val(y_train), Val(y_test))} :
          /\ all_labels' = Bound(al)
          /\ lang2idx' = Bound(lang2idx_of(al))
    /\ last_cell' = Cell("label_indexer", NoException, <<>>, <<>>)
    /\ UNCHANGED <<pipeline_vars, eval_vars, sampler_vars, dataset_vars, train_labels, test_labels,
                   unique_labels, label_to_index, index_to_language>>

\* The cell  train_encodings = encode_texts(X_train) ... eval_dataset =
\* LanguageDataset(test_encodings, test_labels): an exception ends the cell,
\* the assignments made before it stay.
DatasetCell ==
    /\ IsSet(X_train) /\ IsSet(X_test)
    /\ IsSet(y_train) /\ IsSet(y_test) /\ IsSet(lang2idx)
    /\ \E te \in {encode_texts(<<Val(X_train)>>)} :
       \E ee \in {encode_texts(<<Val(X_test)>>)} :
       \E a \in {encode_labels(Val(lang2idx), Val(y_train))} :
       \E b \in {encode_labels(Val(lang2idx), Val(y_test))} :
          IF te.raised # NoException
          THEN /\ last_cell' = Cell("dataset", te.raised, <<>>, <<>>)
               /\ UNCHANGED <<train_labels, test_labels, train_dataset, eval_dataset>>
          ELSE IF a.raised # NoException
          THEN /\ last_cell' = Cell("dataset", a.raised, Val(y_train), <<>>)
               /\ UNCHANGED <<train_labels, test_labels, train_dataset, eval_dataset>>
          ELSE IF b.raised # NoException
          THEN /\ train_labels' = Bound(a.value)
               /\ last_cell' = Cell("dataset", b.raised, Val(y_test), <<>>)
               /\ UNCHANGED <<test_labels, train_dataset, eval_dataset>>
          ELSE /\ train_labels' = Bound(a.value)
               /\ test_labels' = Bound(b.value)
               /\ train_dataset' = Bound(LanguageDataset(te.value, a.value))
               /\ eval_dataset' = Bound(LanguageDataset(ee.value, b.value))
               /\ last_cell' = Cell("dataset", NoException, <<>>, <<>>)
    /\ UNCHANGED <<tokenizer, bert_model, trainer, evaluation_results, disk,
                   loaded_model, loaded_tokenizer, predicted_language,
                   grid_search, loaded_model_tfidf, stdout,
                   eval_vars, sampler_vars, dataset_vars, all_labels, lang2idx,
                   unique_labels, label_to_index, index_to_language>>

\* The cell defining unique_labels, label_to_index and index_to_language.
DecodingCell ==
    /\ IsSet(y_train)
    /\ \E ul \in {sorted(Range(Val(y_train)))} :
       \E l2i \in {dict_of_enumerate(ul, 0)} :
          /\ unique_labels' = Bound(ul)
          /\ label_to_index' = Bound(l2i)
          /\ index_to_language' = Bound(invert(l2i))
    /\ last_cell' = Cell("decoding", NoException, <<>>, <<>>)
    /\ UNCHANGED <<pipeline_vars, eval_vars, sampler_vars, dataset_vars, all_labels, lang2idx,
                   train_labels, test_labels>>

\* Any call encode_labels(labels).
EncodeLabelsCall(labels) ==
    /\ IsSet(lang2idx)
    /\ \E r \in {encode_labels(Val(lang2idx), labels)} :
          last_cell' = Cell("encode_labels", r.raised, labels, r.value)
    /\ UNCHANGED <<pipeline_vars, eval_vars, sampler_vars, dataset_vars, all_labels, lang2idx,
                   train_labels, test_labels,
                   unique_labels, label_to_index, index_to_language>>

\* Any access train_dataset[idx] or eval_dataset[idx], as the data loader of
\* the trainer makes it.
DatasetOf(name) == IF name = "train_dataset" THEN train_dataset ELSE eval_dataset

GetItemCall(name, idx) ==
    /\ IsSet(DatasetOf(name))
    /\ \E r \in {LanguageDataset_getitem(Val(DatasetOf(name)), idx)} :
          last_cell' = [cell |-> "getitem", raised |-> r.raised, labels |-> <<>>,
                        value |-> r.value, dataset |-> name, idx |-> idx]
    /\ UNCHANGED <<pipeline_vars, eval_vars, sampler_vars, dataset_vars, all_labels, lang2idx,
                   train_labels, test_labels,
                   unique_labels, label_to_index, index_to_language>>

\* Labels of the data files, and a language code no file holds.
FileLabels == {strip(LabelCorpus[i]) : i \in 1..Len(LabelCorpus)}
UnknownLabel == <<"x", "x">>

\* The session after the load_datasets cell: any sample of labels.
InitLabels ==
    /\ files = FilesOf(NoFiles, NoFiles)
    /\ rng \in {seed(DefaultRandomState)}
    /\ first_call = Unset
    /\ later_call = Unset
    /\ y_train \in {Bound(y) : y \in SeqsUpTo(FileLabels, MaxLabels)}
    /\ y_test \in {Bound(y) : y \in SeqsUpTo(FileLabels, MaxLabels)}
    /\ X_train = Bound([i \in 1..Len(Val(y_train)) |-> strip(TextCorpus[i])])
    /\ X_test = Bound([i \in 1..Len(Val(y_test)) |-> strip(TextCorpus[i])])
    /\ LabelsUnset
    /\ EvalUnset
    /\ tokenizer = Bound(PretrainedTokenizer) /\ bert_model = Unset
    /\ disk = EmptyDisk
    /\ PipelineAUnset
    /\ PipelineBUnset

NextLabels ==
    \/ LabelIndexerCell
    \/ DatasetCell
    \/ DecodingCell
    \/ \E labels \in SeqsUpTo({<<"e", "n">>, UnknownLabel}, MaxLabels) :
          EncodeLabelsCall(labels)

SpecLabels == InitLabels /\ [][NextLabels]_vars

\* The dataset objects alone: the two cells that build them, and accesses.
NextItems ==
    \/ LabelIndexerCell
    \/ DatasetCell
    \/ \E name \in {"train_dataset", "eval_dataset"}, idx \in 0..MaxLabels :
          GetItemCall(name, idx)

SpecItems == InitLabels /\ [][NextItems]_vars

\* ------------------------------------------------- predictor (Pipelines B, C)
\* str.lower(), for the capitals of the model's texts
Lower(c) == CASE c = "H" -> "h" [] c = "O" -> "o" [] OTHER -> c

lower(text) == [i \in 1..Len(text) |-> Lower(text[i])]

\* word_tokenize(text): the words between whitespace (the texts of the model
\* hold no punctuation)
RECURSIVE split(_, _, _)
split(text, word, tokens) ==
    IF text = <<>>
    THEN IF word = <<>> THEN tokens ELSE Append(tokens, word)
    ELSE IF Head(text) \in Whitespace
         THEN split(Tail(text), <<>>, IF word = <<>> THEN tokens ELSE Append(tokens, word))
         ELSE split(Tail(text), Append(word, Head(text)), tokens)

word_tokenize(text) == split(text, <<>>, <<>>)

\* Embedding vectors have two integer components.
ZeroVector == <<0, 0>>
VecAdd(a, b) == <<a[1] + b[1], a[2] + b[2]>>
Dot(a, b) == a[1] * b[1] + a[2] * b[2]

RECURSIVE VecSum(_)
VecSum(vectors) ==
    IF vectors = <<>> THEN ZeroVector ELSE VecAdd(Head(vectors), VecSum(Tail(vectors)))

\* A plausible slip: a token that occurs again later in the text is counted
\* once only.
RECURSIVE known_vectors_once(_, _)
known_vectors_once(w2v, tokens) ==
    IF tokens = <<>> THEN <<>>
    ELSE IF Head(tokens) \in DOMAIN w2v /\ Head(tokens) \notin Range(Tail(tokens))
         THEN <<w2v[Head(tokens)]>> \o known_vectors_once(w2v, Tail(tokens))
         ELSE known_vectors_once(w2v, Tail(tokens))

\* [word2vec[word] for word in tokenized_text if word in word2vec]
RECURSIVE known_vectors(_, _)
known_vectors(w2v, tokens) ==
    IF tokens = <<>> THEN <<>>
    ELSE IF Head(tokens) \in DOMAIN w2v
         THEN <<w2v[Head(tokens)]>> \o known_vectors(w2v, Tail(tokens))
         ELSE known_vectors(w2v, Tail(tokens))

\* A plausible slip: the mean of no vectors taken to be the zero vector.
np_mean_or_zero(vectors) ==
    IF vectors = <<>> THEN [nan |-> FALSE, sum |-> ZeroVector, n |-> 1]
    ELSE [nan |-> FALSE, sum |-> VecSum(vectors), n |-> Len(vectors)]

\* np.mean(vectors, axis=0, keepdims=True): the exact mean sum/n; of an empty
\* list it is NaN (with a RuntimeWarning, no exception)
np_mean(vectors) ==
    IF vectors = <<>> THEN [nan |-> TRUE, sum |-> ZeroVector, n |-> 0]
    ELSE [nan |-> FALSE, sum |-> VecSum(vectors), n |-> Len(vectors)]

\* Language codes of the classifiers.
English == <<"e", "n">>
French  == <<"f", "r">>

\* model.predict(transformed_text)[0] of the fitted LogisticRegression
\* (weights w, intercept b): input validation rejects NaN with ValueError;
\* the sign of w.mean + b decides, i.e. of w.sum + b*n.
classifier_predict(model, mean) ==
    IF mean.nan THEN [raised |-> "ValueError", value |-> None]
    ELSE [raised |-> NoException,
          value  |-> IF Dot(model.w, mean.sum) + model.b * mean.n > 0
                     THEN English ELSE French]

\* model.predict([text])[0] of the fitted TF-IDF pipeline: the vectorizer
\* lower-cases the text and takes its character bigrams.
Bigrams(text) == {SubSeq(text, i, i + 1) : i \in 1..(Len(text) - 1)}

pipeline_predict(model, text) ==
    IF Bigrams(lower(text)) \cap model.english_bigrams # {} THEN English ELSE French

\* predict_language(text, model, vectorizer_type); reads the global word2vec.
\* An unassigned word2vec raises NameError at the first token tested; any
\* vectorizer_type but 'word2vec' falls off the end of the function.
predict_language(text, model, vectorizer_type) ==
    IF vectorizer_type = "word2vec"
    THEN LET tokenized_text == word_tokenize(lower(text))
         IN  IF tokenized_text # <<>> /\ ~IsSet(word2vec)
             THEN [raised |-> "NameError", value |-> None]
             ELSE classifier_predict(model,
                      np_mean(IF tokenized_text = <<>> THEN <<>>
                              ELSE known_vectors(Val(word2vec), tokenized_text)))
    ELSE [raised |-> NoException, value |-> None]

\* ------------------------------------------------------------- evaluator
ProgressEvery == 100

\* accuracy_score(y, predictions): the fraction correct/total of positions
\* that match; ValueError for lists of different length and for predictions
\* that are no labels (None); NaN (0/0) for no samples.
accuracy_score_of_distinct(y, predictions) ==
    IF Len(y) # Len(predictions) \/ \E i \in 1..Len(predictions) : predictions[i] = None
    THEN [raised |-> "ValueError", value |-> None]
    ELSE [raised |-> NoException,
          value  |-> [correct |-> Cardinality({y[i] : i \in {j \in 1..Len(y) : y[j] = predictions[j]}}),
                      total   |-> Len(y)]]

accuracy_score(y, predictions) ==
    IF Len(y) # Len(predictions) \/ \E i \in 1..Len(predictions) : predictions[i] = None
    THEN [raised |-> "ValueError", value |-> None]
    ELSE [raised |-> NoException,
          value  |-> [correct |-> Cardinality({i \in 1..Len(y) : y[i] = predictions[i]}),
                      total   |-> Len(y)]]

ProgressLine(done, total) == [line |-> "Completed", done |-> done, total |-> total]
AccuracyLine(vectorizer_type, accuracy) ==
    [line |-> "Accuracy", vectorizer_type |-> vectorizer_type, accuracy |-> accuracy]

\* A plausible slip: a sample whose prediction fails is skipped.
RECURSIVE predict_loop_skip(_, _, _, _, _, _, _)
predict_loop_skip(X, model, vectorizer_type, index, predictions, printed, calls) ==
    IF index = Len(X)
    THEN [raised |-> NoException, predictions |-> predictions, printed |-> printed, calls |-> calls]
    ELSE LET r == predict_language(X[index + 1], model, vectorizer_type)
         IN  predict_loop_skip(X, model, vectorizer_type, index + 1,
                 IF r.raised # NoException THEN predictions ELSE Append(predictions, r.value),
                 printed, Append(calls, index))

\* for index, text in enumerate(X): predictions.append(predict_language(...));
\* print the progress every 100 samples and after the last.  calls lists the
\* indices predict_language was called for, in call order.
RECURSIVE predict_loop(_, _, _, _, _, _, _)
predict_loop(X, model, vectorizer_type, index, predictions, printed, calls) ==
    IF index = Len(X)
    THEN [raised |-> NoException, predictions |-> predictions, printed |-> printed, calls |-> calls]
    ELSE LET r == predict_language(X[index + 1], model, vectorizer_type)
         IN  IF r.raised # NoException
             THEN [raised |-> r.raised, predictions |-> predictions,
                   printed |-> printed, calls |-> Append(calls, index)]
             ELSE predict_loop(X, model, vectorizer_type, index + 1,
                      Append(predictions, r.value),
                      IF (index + 1) % ProgressEvery = 0 \/ index + 1 = Len(X)
                      THEN Append(printed, ProgressLine(index + 1, Len(X)))
                      ELSE printed,
                      Append(calls, index))

\* predict_and_evaluate(X, y, model, vectorizer_type)
predict_and_evaluate(X, y, model, vectorizer_type) ==
    LET loop == predict_loop(X, model, vectorizer_type, 0, <<>>, <<>>, <<>>)
        acc  == accuracy_score(y, loop.predictions)
    IN  IF loop.raised # NoException
        THEN [raised |-> loop.raised, value |-> None, predictions |-> loop.predictions,
              printed |-> loop.printed, calls |-> loop.calls]
        ELSE IF acc.raised # NoException
        THEN [raised |-> acc.raised, value |-> None, predictions |-> loop.predictions,
              printed |-> loop.printed, calls |-> loop.calls]
        ELSE [raised |-> NoException, value |-> acc.value, predictions |-> loop.predictions,
              printed |-> Append(loop.printed, AccuracyLine(vectorizer_type, acc.value)),
              calls |-> loop.calls]

\* Any call predict_language(text, model, vectorizer_type) with the artifact
\* of that vectorizer type.
ArtifactOf(vectorizer_type) ==
    IF vectorizer_type = "word2vec" THEN Val(model_word2vec) ELSE Val(model_tfidf)

PredictLanguageCall(text, vectorizer_type) ==
    /\ \E r \in {predict_language(text, ArtifactOf(vectorizer_type), vectorizer_type)} :
          prediction' = Bound([text |-> text, vectorizer_type |-> vectorizer_type,
                               raised |-> r.raised, value |-> r.value])
    /\ UNCHANGED <<pipeline_vars, sampler_vars, dataset_vars, label_vars,
                   word2vec, model_tfidf, model_word2vec, evaluation>>

\* The cells  y_pred_x = predict_and_evaluate(X_test, y_test, model_x, 'x').
EvaluateCell(vectorizer_type) ==
    /\ \E r \in {predict_and_evaluate(Val(X_test), Val(y_test),
                                      ArtifactOf(vectorizer_type), vectorizer_type)} :
          evaluation' = Bound([vectorizer_type |-> vectorizer_type] @@ r)
    /\ UNCHANGED <<pipeline_vars, sampler_vars, dataset_vars, label_vars,
                   word2vec, model_tfidf, model_word2vec, prediction>>

\* Texts: all tokens known, one known token, no known token, no token, a
\* capitalised known token with an unknown one.
TextHiYo  == <<"h", "i", " ", "y", "o">>
TextOk    == <<"o", "k">>
TextXxNo  == <<"x", "x", " ", "n", "o">>
TextEmpty == <<>>
TextHiXx  == <<"H", "i", " ", "x", "x">>
\* ... and a text with a token that occurs twice.
TextHiHiOk == <<"h", "i", " ", "h", "i", " ", "o", "k">>

\* The two vectorizer types of the notebook and one it does not know.
VectorizerTypes == {"word2vec", "tfidf", "bert"}

EvalTexts == {TextHiYo, TextOk, TextXxNo, TextHiXx}

Embedding ==
    [t \in {<<"h", "i">>, <<"y", "o">>, <<"o", "k">>} |->
        IF t = <<"h", "i">> THEN <<2, 0>>
        ELSE IF t = <<"y", "o">> THEN <<1, 1>>
        ELSE <<0, 2>>]

Word2vecModels == {[w |-> <<1, -1>>, b |-> 0], [w |-> <<-1, 1>>, b |-> 1]}
TfidfModels == {[english_bigrams |-> {<<"h", "i">>, <<"y", "o">>}]}

\* The hand-made split of five samples: with the first classifier the
\* predictions are en, fr, en, en, fr.
FiveTexts  == <<TextHiYo, TextOk, TextHiXx, TextHiYo, TextOk>>
FiveLabels == <<English, French, English, French, English>>

EvalSplits ==
    {<<X, y>> : X \in SeqsUpTo(EvalTexts, MaxEval), y \in SeqsUpTo({English, French}, MaxEval)}

\* ------------------------------------------------ Pipeline A: the model
\* BertForSequenceClassification with num_labels classes.  The encoder is
\* abstracted to the bag of the token ids of the text; the classifier holds
\* one integer weight per (token id, class), absent entries being 0.
num_labels == 235
num_train_epochs == 2
SmallTrainSize == 100
SmallEvalSize == 50

PretrainedModel == [num_labels |-> num_labels, classifier |-> <<>>]

Weight(m, t, c) ==
    IF <<t, c>> \in DOMAIN m.classifier THEN m.classifier[<<t, c>>] ELSE 0

\* outputs.logits of model(**inputs) for one row of the batch
RECURSIVE logit(_, _, _, _, _)
logit(m, ids, mask, c, j) ==
    IF j > Len(ids) THEN 0
    ELSE (IF mask[j] = 1 THEN Weight(m, ids[j], c) ELSE 0) + logit(m, ids, mask, c, j + 1)

forward(m, ids, mask) == [c \in 0..(m.num_labels - 1) |-> logit(m, ids, mask, c, 1)]

\* torch.argmax(logits, dim=-1).item(): the first index of the largest logit
argmax(logits) ==
    LET largest == CHOOSE v \in Range(logits) : \A w \in Range(logits) : w <= v
    IN  CHOOSE c \in DOMAIN logits :
            logits[c] = largest /\ \A d \in 0..(c - 1) : logits[d] # largest

\* One optimisation step on one sample: the weight of (token, label) grows
\* for every real token of the sample.
RECURSIVE train_step(_, _, _, _, _)
train_step(classifier, ids, mask, label, j) ==
    IF j > Len(ids) THEN classifier
    ELSE IF mask[j] = 0 THEN train_step(classifier, ids, mask, label, j + 1)
    ELSE LET k == <<ids[j], label>>
             grown == [e \in DOMAIN classifier \cup {k} |->
                          IF e = k
                          THEN (IF k \in DOMAIN classifier THEN classifier[k] ELSE 0) + 1
                          ELSE classifier[e]]
         IN  train_step(grown, ids, mask, label, j + 1)

\* One epoch over dataset[0 .. len(dataset)-1]
RECURSIVE train_epoch(_, _, _)
train_epoch(classifier, dataset, i) ==
    IF i > Len(dataset.labels) THEN classifier
    ELSE train_epoch(train_step(classifier,
                                dataset.encodings.input_ids[i],
                                dataset.encodings.attention_mask[i],
                                dataset.labels[i], 1),
                     dataset, i + 1)

RECURSIVE train_epochs(_, _, _)
train_epochs(classifier, dataset, epochs) ==
    IF epochs = 0 THEN classifier
    ELSE train_epochs(train_epoch(classifier, dataset, 1), dataset, epochs - 1)

\* Trainer(model=m, train_dataset=dataset).train(): tunes the model object it
\* was given, in place.
Trainer_train(m, dataset) ==
    [m EXCEPT !.classifier = train_epochs(m.classifier, dataset, num_train_epochs)]

\* Trainer.evaluate(): the eval_loss is abstracted to the number of samples of
\* the evaluation set the model gets wrong; the model is left as it is.
Trainer_evaluate(m, dataset) ==
    [eval_loss |-> Cardinality({i \in 1..Len(dataset.labels) :
                      argmax(forward(m, dataset.encodings.input_ids[i],
                                     dataset.encodings.attention_mask[i]))
                          # dataset.labels[i]}),
     epoch |-> num_train_epochs]

\* dataset[:n] as LanguageDataset(encodings[:n], labels[:n])
Head_n(seq, n) == SubSeq(seq, 1, IF Len(seq) > n THEN n ELSE Len(seq))

small_dataset(dataset, n) ==
    LanguageDataset([input_ids |-> Head_n(dataset.encodings.input_ids, n),
                     attention_mask |-> Head_n(dataset.encodings.attention_mask, n)],
                    Head_n(dataset.labels, n))

\* model.save_pretrained(dir): config.json and the weights as a list of
\* named entries; tokenizer.save_pretrained(dir): vocab.txt
save_pretrained(m) ==
    [config |-> [num_labels |-> m.num_labels],
     safetensors |-> {<<k[1], k[2], m.classifier[k]>> : k \in DOMAIN m.classifier}]

save_vocabulary(tok) == [vocab_txt |-> tok.vocab]

\* A plausible slip: the classification head is not restored from the file.
from_pretrained_new_head(dir) ==
    [num_labels |-> dir.config.num_labels, classifier |-> <<>>]

\* BertForSequenceClassification.from_pretrained(dir)
from_pretrained(dir) ==
    [num_labels |-> dir.config.num_labels,
     classifier |->
        [k \in {<<e[1], e[2]>> : e \in dir.safetensors} |->
            (CHOOSE e \in dir.safetensors : e[1] = k[1] /\ e[2] = k[2])[3]]]

tokenizer_from_pretrained(dir) == [vocab |-> dir.vocab_txt]

\* predict(text, tokenizer, model, index_to_language); tok and mdl are its
\* parameters tokenizer and model.  encode_texts is called with two
\* arguments.
predict(text, tok, mdl, i2l) ==
    LET inputs == encode_texts(<<text, tok>>)
    IN  IF inputs.raised # NoException
        THEN [raised |-> inputs.raised, value |-> None]
        ELSE LET prediction_index ==
                     argmax(forward(mdl, inputs.value.input_ids[1],
                                    inputs.value.attention_mask[1]))
             IN  IF prediction_index \in DOMAIN i2l
                 THEN [raised |-> NoException, value |-> i2l[prediction_index]]
                 ELSE [raised |-> "KeyError", value |-> None]

\* ------------------------------------------------ Pipeline A: the cells
\* Each cell leaves its name and the exception it ended with in last_cell.
\* The other globals a cell of Pipeline A does not assign.
PipelineAFrame ==
    UNCHANGED <<sampler_vars, dataset_vars, eval_vars,
                all_labels, lang2idx, train_labels, test_labels,
                unique_labels, label_to_index, index_to_language,
                train_dataset, eval_dataset, grid_search, loaded_model_tfidf, stdout>>

\* tokenizer = BertTokenizer.from_pretrained(...); model = ...from_pretrained(...)
ModelCell ==
    /\ tokenizer' = Bound(PretrainedTokenizer)
    /\ bert_model' = Bound(PretrainedModel)
    /\ last_cell' = Cell("model", NoException, <<>>, <<>>)
    /\ PipelineAFrame
    /\ UNCHANGED <<trainer, evaluation_results, disk, loaded_model, loaded_tokenizer,
                   predicted_language>>

\* trainer = Trainer(model=model, ..., train_dataset, eval_dataset)
TrainerCell ==
    /\ IF IsSet(bert_model) /\ IsSet(train_dataset) /\ IsSet(eval_dataset)
       THEN /\ trainer' = Bound([train_dataset |-> Val(train_dataset),
                                 eval_dataset |-> Val(eval_dataset)])
            /\ last_cell' = Cell("trainer", NoException, <<>>, <<>>)
       ELSE /\ last_cell' = Cell("trainer", "NameError", <<>>, <<>>)
            /\ UNCHANGED trainer
    /\ PipelineAFrame
    /\ UNCHANGED <<tokenizer, bert_model, evaluation_results, disk, loaded_model,
                   loaded_tokenizer, predicted_language>>

\* The trial run: test_trainer = Trainer(model=model, small datasets);
\* test_trainer.train().  It tunes the same model object as trainer.
TestTrainerCell ==
    /\ IF IsSet(bert_model) /\ IsSet(train_dataset) /\ IsSet(eval_dataset)
       THEN /\ bert_model' = Bound(Trainer_train(Val(bert_model),
                                      small_dataset(Val(train_dataset), SmallTrainSize)))
            /\ last_cell' = Cell("test_trainer", NoException, <<>>, <<>>)
       ELSE /\ last_cell' = Cell("test_trainer", "NameError", <<>>, <<>>)
            /\ UNCHANGED bert_model
    /\ PipelineAFrame
    /\ UNCHANGED <<tokenizer, trainer, evaluation_results, disk, loaded_model,
                   loaded_tokenizer, predicted_language>>

\* The trial run is left out of the session.
Skipped == <<"skipped">>
SkipTestTrainerCell ==
    /\ last_cell' = Cell("test_trainer", NoException, <<>>, Skipped)
    /\ PipelineAFrame
    /\ UNCHANGED <<tokenizer, bert_model, trainer, evaluation_results, disk, loaded_model,
                   loaded_tokenizer, predicted_language>>

\* trainer.train()
TrainCell ==
    /\ IF IsSet(trainer) /\ IsSet(bert_model)
       THEN /\ bert_model' = Bound(Trainer_train(Val(bert_model), Val(trainer).train_dataset))
            /\ last_cell' = Cell("train", NoException, <<>>, <<>>)
       ELSE /\ last_cell' = Cell("train", "NameError", <<>>, <<>>)
            /\ UNCHANGED bert_model
    /\ PipelineAFrame
    /\ UNCHANGED <<tokenizer, trainer, evaluation_results, disk, loaded_model,
                   loaded_tokenizer, predicted_language>>

\* model.save_pretrained('./final_model'); tokenizer.save_pretrained(...)
SaveCell ==
    /\ IF IsSet(bert_model) /\ IsSet(tokenizer)
       THEN /\ disk' = [disk EXCEPT ![final_model_path] =
                           Bound(save_pretrained(Val(bert_model))
                                 @@ save_vocabulary(Val(tokenizer)))]
            /\ last_cell' = Cell("save", NoException, <<>>, <<>>)
       ELSE /\ last_cell' = Cell("save", "NameError", <<>>, <<>>)
            /\ UNCHANGED disk
    /\ PipelineAFrame
    /\ UNCHANGED <<tokenizer, bert_model, trainer, evaluation_results, loaded_model,
                   loaded_tokenizer, predicted_language>>

\* evaluation_results = trainer.evaluate()
TrainerEvaluateCell ==
    /\ IF IsSet(trainer) /\ IsSet(bert_model)
       THEN /\ evaluation_results' =
                   Bound(Trainer_evaluate(Val(bert_model), Val(trainer).eval_dataset))
            /\ last_cell' = Cell("evaluate", NoException, <<>>, <<>>)
       ELSE /\ last_cell' = Cell("evaluate", "NameError", <<>>, <<>>)
            /\ UNCHANGED evaluation_results
    /\ PipelineAFrame
    /\ UNCHANGED <<tokenizer, bert_model, trainer, disk, loaded_model,
                   loaded_tokenizer, predicted_language>>

\* loaded_model = ...from_pretrained('./final_model'); loaded_tokenizer = ...
ReloadCell ==
    /\ IF IsSet(disk[final_model_path])
       THEN /\ loaded_model' = Bound(from_pretrained(Val(disk[final_model_path])))
            /\ loaded_tokenizer' =
                   Bound(tokenizer_from_pretrained(Val(disk[final_model_path])))
            /\ last_cell' = Cell("reload", NoException, <<>>, <<>>)
       ELSE /\ last_cell' = Cell("reload", "OSError", <<>>, <<>>)
            /\ UNCHANGED <<loaded_model, loaded_tokenizer>>
    /\ PipelineAFrame
    /\ UNCHANGED <<tokenizer, bert_model, trainer, evaluation_results, disk,
                   predicted_language>>

\* predicted_language = predict(english_text, loaded_tokenizer, loaded_model,
\*                              index_to_language)
english_text == <<"h", "i", " ", "y", "o">>

PredictCell ==
    /\ IF IsSet(loaded_tokenizer) /\ IsSet(loaded_model) /\ IsSet(index_to_language)
       THEN \E r \in {predict(english_text, Val(loaded_tokenizer), Val(loaded_model),
                              Val(index_to_language))} :
               /\ last_cell' = Cell("predict", r.raised, <<>>, <<>>)
               /\ IF r.raised = NoException
                  THEN predicted_language' = Bound(r.value)
                  ELSE UNCHANGED predicted_language
       ELSE /\ last_cell' = Cell("predict", "NameError", <<>>, <<>>)
            /\ UNCHANGED predicted_language
    /\ PipelineAFrame
    /\ UNCHANGED <<tokenizer, bert_model, trainer, evaluation_results, disk,
                   loaded_model, loaded_tokenizer>>

\* The cells of the notebook in document order; a session runs them top to
\* bottom, going on after a cell that ended with an exception.
NotebookA_evaluate_first ==
    <<"model", "label_indexer", "dataset", "trainer", "test_trainer", "train",
      "evaluate", "save", "reload", "decoding", "predict">>

NotebookA ==
    <<"model", "label_indexer", "dataset", "trainer", "test_trainer", "train",
      "save", "evaluate", "reload", "decoding", "predict">>

NextInA(name) ==
    \E i \in 1..Len(NotebookA) :
        /\ NotebookA[i] = name
        /\ last_cell.cell = (IF i = 1 THEN NoCell.cell ELSE NotebookA[i - 1])

\* The session of Pipeline A after the load_datasets cell, with an
\* evaluation split of at most one sample.
InitPipelineA ==
    /\ files = FilesOf(NoFiles, NoFiles)
    /\ rng \in {seed(DefaultRandomState)}
    /\ first_call = Unset
    /\ later_call = Unset
    /\ y_train \in {Bound(y) : y \in SeqsUpTo(FileLabels, MaxLabels)}
    /\ y_test \in {Bound(y) : y \in SeqsUpTo(FileLabels, 1)}
    /\ X_train = Bound([i \in 1..Len(Val(y_train)) |-> strip(TextCorpus[i])])
    /\ X_test = Bound([i \in 1..Len(Val(y_test)) |-> strip(TextCorpus[i])])
    /\ LabelsUnset
    /\ EvalUnset
    /\ PipelineUnset

NextPipelineA ==
    \/ NextInA("model") /\ ModelCell
    \/ NextInA("label_indexer") /\ LabelIndexerCell
    \/ NextInA("dataset") /\ DatasetCell
    \/ NextInA("trainer") /\ TrainerCell
    \/ NextInA("test_trainer") /\ TestTrainerCell
    \/ NextInA("test_trainer") /\ SkipTestTrainerCell
    \/ NextInA("train") /\ TrainCell
    \/ NextInA("save") /\ SaveCell
    \/ NextInA("evaluate") /\ TrainerEvaluateCell
    \/ NextInA("reload") /\ ReloadCell
    \/ NextInA("decoding") /\ DecodingCell
    \/ NextInA("predict") /\ PredictCell

SpecPipelineA == InitPipelineA /\ [][NextPipelineA]_vars

\* ------------------------------------- Pipelines B and C: training cells
\* train_and_tune_model(X_train, y_train, 'tfidf').  The pipeline is built
\* with ngram_range (3, 3) and max_iter 500; the grid sets C and ngram_range.
cv == 5
BasePipeline ==
    [tfidfvectorizer |-> [analyzer |-> "char", ngram_range |-> <<3, 3>>],
     logisticregression |-> [C |-> "1.0", max_iter |-> 500]]

\* ParameterGrid(parameters): every combination, in grid order
parameters ==
    [logisticregression__C |-> <<"0.1", "1">>,
     tfidfvectorizer__ngram_range |-> << <<2, 2>> >>]

ParameterGrid ==
    [i \in 1..(Len(parameters.logisticregression__C)
                  * Len(parameters.tfidfvectorizer__ngram_range)) |->
        [logisticregression__C |->
            parameters.logisticregression__C[
                ((i - 1) \div Len(parameters.tfidfvectorizer__ngram_range)) + 1],
         tfidfvectorizer__ngram_range |->
            parameters.tfidfvectorizer__ngram_range[
                ((i - 1) % Len(parameters.tfidfvectorizer__ngram_range)) + 1]]]

\* clone(pipeline).set_params(**params)
set_params(pipeline, params) ==
    [tfidfvectorizer |-> [pipeline.tfidfvectorizer EXCEPT
                             !.ngram_range = params.tfidfvectorizer__ngram_range],
     logisticregression |-> [pipeline.logisticregression EXCEPT
                             !.C = params.logisticregression__C]]

\* The score of one fit on one fold is a black box: any of ScoreLevels.
ScoreLevels == {0, 1}
FoldScores == [1..cv -> ScoreLevels]
ScoreTables == [1..Len(ParameterGrid) -> FoldScores]

RECURSIVE SumScores(_, _)
SumScores(fold_scores, i) ==
    IF i > Len(fold_scores) THEN 0 ELSE fold_scores[i] + SumScores(fold_scores, i + 1)

\* mean_test_score, as the sum over the cv folds (the divisor is the same
\* for all candidates)
mean_test_score(scores) == [k \in 1..Len(scores) |-> SumScores(scores[k], 1)]

\* A plausible slip: the candidate of the lowest mean score is taken.
best_index_lowest(means) ==
    CHOOSE k \in 1..Len(means) :
        /\ \A j \in 1..Len(means) : means[k] <= means[j]
        /\ \A j \in 1..(k - 1) : means[j] # means[k]

\* best_index_: the first candidate of the highest mean score
best_index(means) ==
    CHOOSE k \in 1..Len(means) :
        /\ \A j \in 1..Len(means) : means[j] <= means[k]
        /\ \A j \in 1..(k - 1) : means[j] # means[k]

\* pipeline.fit(X, y): the fitted vectorizer lower-cases the texts and takes
\* their character n-grams; the classifier is abstracted to the n-grams of
\* the texts labelled English.
Ngrams(text, n) == {SubSeq(text, i, i + n - 1) : i \in 1..(Len(text) - n + 1)}

fit(pipeline, X, y) ==
    pipeline @@
    [english_bigrams |->
        UNION {Ngrams(lower(X[i]), pipeline.tfidfvectorizer.ngram_range[1]) :
                  i \in {j \in 1..Len(X) : j <= Len(y) /\ y[j] = English}}]

\* GridSearchCV(pipeline, parameters, cv=5).fit(X, y) with the fold scores
\* given; fewer samples than folds is an error.
GridSearchCV_fit(X, y, scores) ==
    IF Len(X) < cv \/ Len(X) # Len(y)
    THEN [raised |-> "ValueError", value |-> None]
    ELSE LET means == mean_test_score(scores)
             best  == best_index(means)
         IN  [raised |-> NoException,
              value  |-> [cv_results_ |-> [params |-> ParameterGrid,
                                           split_test_score |-> scores,
                                           mean_test_score |-> means],
                          best_index_ |-> best,
                          best_params_ |-> ParameterGrid[best],
                          best_estimator_ |->
                              fit(set_params(BasePipeline, ParameterGrid[best]), X, y)]]

\* class EpochLogger(CallbackAny2Vec): the object after __init__, and
\* on_epoch_end(model), which prints the counter and then adds one to it.
EpochLogger == [epoch |-> 0]

EpochLine(n) == [line |-> "Epoch completed", epoch |-> n]

on_epoch_end(self) ==
    [self |-> [epoch |-> self.epoch + 1], printed |-> <<EpochLine(self.epoch)>>]

\* The end of one epoch of a gensim training: on_epoch_end of every
\* callback of the list the training was given, in list order.
RECURSIVE epoch_end(_, _, _)
epoch_end(callbacks, i, printed) ==
    IF i > Len(callbacks) THEN [callbacks |-> callbacks, printed |-> printed]
    ELSE LET r == on_epoch_end(callbacks[i])
         IN  epoch_end([callbacks EXCEPT ![i] = r.self], i + 1, printed \o r.printed)

\* Word2Vec.train(..., epochs=n, callbacks=callbacks)
RECURSIVE Word2Vec_train(_, _, _)
Word2Vec_train(callbacks, n, printed) ==
    IF n = 0 THEN [callbacks |-> callbacks, printed |-> printed]
    ELSE LET r == epoch_end(callbacks, 1, printed)
         IN  Word2Vec_train(r.callbacks, n - 1, r.printed)

\* epochs=10 of word2vec_transform
epochs == 10

\* word2vec_transform(sentences): Word2Vec takes each sentence as a sequence
\* of tokens, and a str is the sequence of its characters; the vectors are
\* abstracted to two components.  No sentence with a character: RuntimeError.
\* The constructor trains for epochs epochs and model.train for epochs more;
\* neither is given a callbacks argument, whose default is the empty list.
\* The value returned is the dictionary word -> vector of the vocabulary;
\* a value carries its Python type.
word2vec_transform(sentences) ==
    LET words == UNION {{<<sentences[i][j]>> : j \in 1..Len(sentences[i])} :
                           i \in 1..Len(sentences)}
        constructed == Word2Vec_train(<<>>, epochs, <<>>)
        trained == Word2Vec_train(constructed.callbacks, epochs, constructed.printed)
    IN  IF words = {}
        THEN [raised |-> "RuntimeError", value |-> None, printed |-> <<>>]
        ELSE [raised |-> NoException,
              value  |-> [type |-> "dict", items |-> [w \in words |-> <<1, 1>>]],
              printed |-> trained.printed]

\* pipeline.fit(X_train_transformed, y_train) of the classifier pipeline:
\* input validation takes X as an array of samples; a dictionary is none
\* (ValueError), and so are X and y of different lengths.
classifier_fit(X, y) ==
    IF X.type # "ndarray" \/ Len(X.rows) # Len(y)
    THEN [raised |-> "ValueError", value |-> None]
    ELSE [raised |-> NoException, value |-> [classifier |-> [X |-> X, y |-> y]]]

\* A plausible slip: a vectorizer_type the function does not know is
\* rejected.
train_and_tune_model_strict(X, y, vectorizer_type, scores) ==
    [raised |-> "ValueError", value |-> None, grid_search |-> None, printed |-> <<>>]

\* train_and_tune_model(X_train, y_train, vectorizer_type).  In the word2vec
\* branch the classifier pipeline is fitted on the dictionary of word
\* vectors.  Any other vectorizer_type falls off the end of the function.
train_and_tune_model(X, y, vectorizer_type, scores) ==
    IF vectorizer_type = "tfidf"
    THEN LET grid_search_fit == GridSearchCV_fit(X, y, scores)
         IN  IF grid_search_fit.raised # NoException
             THEN [raised |-> grid_search_fit.raised, value |-> None, grid_search |-> None,
                   printed |-> <<>>]
             ELSE [raised |-> NoException,
                   value |-> grid_search_fit.value.best_estimator_,
                   grid_search |-> grid_search_fit.value,
                   printed |-> <<[line |-> "Best TF-IDF model selected."]>>]
    ELSE IF vectorizer_type = "word2vec"
    THEN LET X_train_transformed == word2vec_transform(X)
             transforming == <<[line |-> "Transforming training data using Word2Vec..."]>>
         IN  IF X_train_transformed.raised # NoException
             THEN [raised |-> X_train_transformed.raised, value |-> None, grid_search |-> None,
                   printed |-> transforming]
             ELSE LET fitted == classifier_fit(X_train_transformed.value, y)
                  IN  IF fitted.raised # NoException
                      THEN [raised |-> fitted.raised, value |-> None, grid_search |-> None,
                            printed |-> transforming \o X_train_transformed.printed]
                      ELSE [raised |-> NoException, value |-> fitted.value,
                            grid_search |-> None,
                            printed |-> (transforming \o X_train_transformed.printed)
                                            \o <<[line |-> "Word2Vec model fitted."]>>]
    ELSE [raised |-> NoException, value |-> None, grid_search |-> None, printed |-> <<>>]

\* joblib.load(path)
joblib_load(content) == content.pickle

\* Any call train_and_tune_model(X_train, y_train, vectorizer_type) with a
\* type that needs no grid search.
TrainAndTuneCall(vectorizer_type) ==
    /\ \E r \in {train_and_tune_model(Val(X_train), Val(y_train), vectorizer_type, <<>>)} :
          /\ last_cell' = [cell |-> "train_and_tune_model", raised |-> r.raised,
                           labels |-> <<>>, value |-> r.value,
                           vectorizer_type |-> vectorizer_type]
          /\ stdout' = r.printed
    /\ UNCHANGED <<sampler_vars, dataset_vars, eval_vars,
                   all_labels, lang2idx, train_labels, test_labels,
                   unique_labels, label_to_index, index_to_language,
                   tokenizer, bert_model, train_dataset, eval_dataset, trainer,
                   evaluation_results, disk, loaded_model, loaded_tokenizer,
                   predicted_language, grid_search, loaded_model_tfidf>>

\* The session of Pipelines B and C after training: an evaluation split, the
\* two artifacts, and word2vec assigned or not.
InitEval ==
    /\ files = FilesOf(NoFiles, NoFiles)
    /\ rng \in {seed(DefaultRandomState)}
    /\ first_call = Unset
    /\ later_call = Unset
    /\ X_train = Bound(<<TextHiYo, TextOk>>)
    /\ y_train = Bound(<<English, French>>)
    /\ \E sp \in {e \in EvalSplits : Len(e[1]) = Len(e[2])} \cup {<<FiveTexts, FiveLabels>>} :
          X_test = Bound(sp[1]) /\ y_test = Bound(sp[2])
    /\ LabelsUnset
    /\ word2vec \in {Unset, Bound(Embedding)}
    /\ model_tfidf \in {Bound(m) : m \in TfidfModels}
    /\ model_word2vec \in {Bound(m) : m \in Word2vecModels}
    /\ prediction = Unset
    /\ evaluation = Unset
    /\ PipelineUnset

NextEval ==
    \/ \E text \in EvalTexts \cup {TextEmpty}, vt \in {"word2vec", "tfidf"} :
          PredictLanguageCall(text, vt)
    \/ \E vt \in {"word2vec", "tfidf"} : EvaluateCell(vt)

SpecEval == InitEval /\ [][NextEval]_vars

\* The two functions called directly, with every vectorizer type: a training
\* set of two samples or of none, the two artifacts, word2vec assigned or not.
InitCalls ==
    /\ files = FilesOf(NoFiles, NoFiles)
    /\ rng \in {seed(DefaultRandomState)}
    /\ first_call = Unset
    /\ later_call = Unset
    /\ \E n \in {0, 2} :
          /\ X_train = Bound(SubSeq(<<TextHiYo, TextOk>>, 1, n))
          /\ y_train = Bound(SubSeq(<<English, French>>, 1, n))
    /\ X_test = Bound(<<>>)
    /\ y_test = Bound(<<>>)
    /\ LabelsUnset
    /\ word2vec \in {Unset, Bound(Embedding)}
    /\ model_tfidf \in {Bound(m) : m \in TfidfModels}
    /\ model_word2vec \in {Bound(m) : m \in Word2vecModels}
    /\ prediction = Unset
    /\ evaluation = Unset
    /\ PipelineUnset

NextCalls ==
    \/ \E text \in EvalTexts \cup {TextEmpty, TextHiHiOk}, vt \in VectorizerTypes :
          PredictLanguageCall(text, vt)
    \/ \E vt \in VectorizerTypes \ {"tfidf"} : TrainAndTuneCall(vt)

SpecCalls == InitCalls /\ [][NextCalls]_vars

PipelineBFrame ==
    UNCHANGED <<sampler_vars, dataset_vars, word2vec, prediction,
                all_labels, lang2idx, train_labels, test_labels,
                unique_labels, label_to_index, index_to_language,
                tokenizer, bert_model, train_dataset, eval_dataset, trainer,
                evaluation_results, loaded_model, loaded_tokenizer,
                predicted_language, disk>>

\* model_tfidf = train_and_tune_model(X_train, y_train, vectorizer_type='tfidf')
\* y_pred_tfidf = predict_and_evaluate(X_test, y_test, model_tfidf, 'tfidf')
\* (the dump of the model is commented out)
TfidfCell(scores) ==
    /\ \E t \in {train_and_tune_model(Val(X_train), Val(y_train), "tfidf", scores)} :
          IF t.raised # NoException
          THEN /\ last_cell' = Cell("tfidf", t.raised, <<>>, <<>>)
               /\ stdout' = t.printed
               /\ UNCHANGED <<model_tfidf, grid_search, evaluation>>
          ELSE \E r \in {predict_and_evaluate(Val(X_test), Val(y_test), t.value, "tfidf")} :
                  /\ model_tfidf' = Bound(t.value)
                  /\ grid_search' = Bound(t.grid_search)
                  /\ stdout' = t.printed
                  /\ evaluation' = Bound([vectorizer_type |-> "tfidf"] @@ r)
                  /\ last_cell' = Cell("tfidf", r.raised, <<>>, <<>>)
    /\ PipelineBFrame
    /\ UNCHANGED <<model_word2vec, loaded_model_tfidf>>

\* files.download(path)
DownloadCell(name, path) ==
    /\ last_cell' = Cell(name, IF IsSet(disk[path]) THEN NoException
                               ELSE "FileNotFoundError", <<>>, <<>>)
    /\ PipelineBFrame
    /\ UNCHANGED <<model_tfidf, model_word2vec, grid_search, evaluation, loaded_model_tfidf,
                   stdout>>

\* loaded_model_tfidf = load('model_tfidf.joblib')
LoadTfidfCell ==
    /\ IF IsSet(disk[tfidf_joblib])
       THEN /\ loaded_model_tfidf' = Bound(joblib_load(Val(disk[tfidf_joblib])))
            /\ last_cell' = Cell("load_tfidf", NoException, <<>>, <<>>)
       ELSE /\ last_cell' = Cell("load_tfidf", "FileNotFoundError", <<>>, <<>>)
            /\ UNCHANGED loaded_model_tfidf
    /\ PipelineBFrame
    /\ UNCHANGED <<model_tfidf, model_word2vec, grid_search, evaluation, stdout>>

\* model_word2vec = train_and_tune_model(X_train, y_train, vectorizer_type='word2vec')
\* y_pred_word2vec = predict_and_evaluate(X_test, y_test, model_word2vec, 'word2vec')
Word2vecCell ==
    /\ \E t \in {train_and_tune_model(Val(X_train), Val(y_train), "word2vec", <<>>)} :
          IF t.raised # NoException
          THEN /\ last_cell' = Cell("word2vec", t.raised, <<>>, <<>>)
               /\ stdout' = t.printed
               /\ UNCHANGED <<model_word2vec, evaluation>>
          ELSE \E r \in {predict_and_evaluate(Val(X_test), Val(y_test), t.value, "word2vec")} :
                  /\ model_word2vec' = Bound(t.value)
                  /\ stdout' = t.printed
                  /\ evaluation' = Bound([vectorizer_type |-> "word2vec"] @@ r)
                  /\ last_cell' = Cell("word2vec", r.raised, <<>>, <<>>)
    /\ PipelineBFrame
    /\ UNCHANGED <<model_tfidf, grid_search, loaded_model_tfidf>>

\* The cells of Pipelines B and C in document order.
NotebookB == <<"tfidf", "download_tfidf", "load_tfidf", "word2vec", "download_word2vec">>

NextInB(name) ==
    \E i \in 1..Len(NotebookB) :
        /\ NotebookB[i] = name
        /\ last_cell.cell = (IF i = 1 THEN NoCell.cell ELSE NotebookB[i - 1])

\* A training set of one English and one French sentence, and an English
\* evaluation sentence that shares words with the first.
TextHelloWorld == <<"h", "e", "l", "l", "o", " ", "w", "o", "r", "l", "d">>
TextBonjourLeMonde ==
    <<"b", "o", "n", "j", "o", "u", "r", " ", "l", "e", " ", "m", "o", "n", "d", "e">>
TextHelloThere == <<"h", "e", "l", "l", "o", " ", "t", "h", "e", "r", "e">>
PairTexts == <<TextHelloWorld, TextBonjourLeMonde>>
PairLabels == <<English, French>>

\* Training splits: five samples, six samples, and two samples (fewer than
\* the folds of the search).
SixTexts == Append(FiveTexts, TextXxNo)
SixLabels == Append(FiveLabels, French)
TrainSplits ==
    {<<FiveTexts, FiveLabels>>, <<SixTexts, SixLabels>>,
     <<SubSeq(FiveTexts, 1, 2), SubSeq(FiveLabels, 1, 2)>>,
     <<PairTexts, PairLabels>>}
TestSplits == {<< <<>>, <<>> >>, << <<TextHiYo>>, <<English>> >>,
               << <<TextHelloThere>>, <<English>> >>}

\* A file left in the runtime by an earlier session.
StaleArtifact == [pickle |-> [english_bigrams |-> {<<"o", "k">>}]]

\* The session of Pipelines B and C after the load_datasets cell and the
\* function definitions, in a fresh runtime or one that holds an old file.
InitPipelineB ==
    /\ files = FilesOf(NoFiles, NoFiles)
    /\ rng \in {seed(DefaultRandomState)}
    /\ first_call = Unset
    /\ later_call = Unset
    /\ \E tr \in TrainSplits : X_train = Bound(tr[1]) /\ y_train = Bound(tr[2])
    /\ \E te \in TestSplits : X_test = Bound(te[1]) /\ y_test = Bound(te[2])
    /\ LabelsUnset
    /\ EvalUnset
    /\ tokenizer = Unset /\ bert_model = Unset
    /\ disk \in {EmptyDisk, [EmptyDisk EXCEPT ![tfidf_joblib] = Bound(StaleArtifact)]}
    /\ PipelineAUnset
    /\ PipelineBUnset

NextPipelineB ==
    \/ NextInB("tfidf") /\ \E scores \in ScoreTables : TfidfCell(scores)
    \/ NextInB("download_tfidf") /\ DownloadCell("download_tfidf", tfidf_joblib)
    \/ NextInB("load_tfidf") /\ LoadTfidfCell
    \/ NextInB("word2vec") /\ Word2vecCell
    \/ NextInB("download_word2vec") /\ DownloadCell("download_word2vec", word2vec_joblib)

SpecPipelineB == InitPipelineB /\ [][NextPipelineB]_vars

\* ===================================================================== C1
\* C1: load_data_sample is deterministic.  Two calls on the same file with the
\* same random_state and the same sample_size (not larger than the number of
\* lines) both return, and return the same sequence, whatever was drawn from
\* the shared generator between them.
SameSamplerKey(a, b) ==
    /\ a.filepath = b.filepath
    /\ a.sample_size = b.sample_size
    /\ a.random_state = b.random_state

C1_SamplerDeterministic ==
    (IsSet(first_call) /\ IsSet(later_call)) =>
        LET a == Val(first_call).call
            b == Val(later_call).call
        IN  (SameSamplerKey(a, b) /\ a.sample_size <= Len(files[a.filepath])) =>
                /\ a.raised = NoException
                /\ b.raised = NoException
                /\ a.sampled_lines = b.sampled_lines

\* Two calls with the same arguments, a sample of two lines or more, and
\* other draws from the generator between the calls.
C1_Witness ==
    /\ IsSet(first_call) /\ IsSet(later_call)
    /\ SameSamplerKey(Val(first_call).call, Val(later_call).call)
    /\ Val(later_call).other_draws
    /\ Val(later_call).call.raised = NoException
    /\ Len(Val(later_call).call.sampled_lines) >= 2
    /\ Val(first_call).call.sampled_lines = Val(later_call).call.sampled_lines

\* ===================================================================== C2
\* C2: load_datasets keeps text and label aligned.  When a text file and its
\* label file have the same number of lines, X[i] and y[i] are the stripped
\* lines of one and the same line index, for the training pair and for the
\* test pair.
\* The 0-based index of the line of a text file with the given stripped
\* content (the lines of TextCorpus are pairwise distinct after strip).
LineIndexOf(lines, content) ==
    CHOOSE k \in 0..(Len(lines) - 1) : strip(lines[k + 1]) = content

Aligned(X, y, text_lines, label_lines) ==
    /\ Len(X) = Len(y)
    /\ \A i \in 1..Len(X) :
          /\ \E k \in 0..(Len(text_lines) - 1) : strip(text_lines[k + 1]) = X[i]
          /\ y[i] = strip(label_lines[LineIndexOf(text_lines, X[i]) + 1])

C2_TextLabelAligned ==
    IsSet(X_train) =>
        /\ (Len(files[train_data_path]) = Len(files[train_labels_path])) =>
              Aligned(Val(X_train), Val(y_train),
                      files[train_data_path], files[train_labels_path])
        /\ (Len(files[test_data_path]) = Len(files[test_labels_path])) =>
              Aligned(Val(X_test), Val(y_test),
                      files[test_data_path], files[test_labels_path])

\* Both pairs of files of equal length, at least two training samples with
\* different labels and at least one test sample.
C2_Witness ==
    /\ IsSet(X_train) /\ IsSet(y_train) /\ IsSet(X_test) /\ IsSet(y_test)
    /\ Len(files[train_data_path]) = Len(files[train_labels_path])
    /\ Len(files[test_data_path]) = Len(files[test_labels_path])
    /\ Len(Val(X_train)) >= 2
    /\ Val(y_train)[1] # Val(y_train)[2]
    /\ Len(Val(X_test)) >= 1

\* ===================================================================== C3
\* C3: lang2idx is a bijection between the label vocabulary (the distinct
\* labels of y_train and y_test) and 0..n-1: its keys are the vocabulary, no
\* two labels share an index, every integer of 0..n-1 is an index, and
\* decoding the index of a label gives the label back.
Vocabulary == Range(Val(y_train)) \cup Range(Val(y_test))

C3_Lang2idxBijection ==
    IsSet(lang2idx) =>
        LET m == Val(lang2idx)
            n == Cardinality(Vocabulary)
        IN  /\ DOMAIN m = Vocabulary
            /\ \A a \in Vocabulary : \A b \in Vocabulary : m[a] = m[b] => a = b
            /\ {m[l] : l \in Vocabulary} = 0..(n - 1)
            /\ \A l \in Vocabulary : invert(m)[m[l]] = l

\* A vocabulary of three labels, one of them repeated in y_train.
C3_Witness ==
    /\ IsSet(lang2idx)
    /\ Cardinality(DOMAIN Val(lang2idx)) = 3
    /\ Len(Val(y_train)) = 2
    /\ Val(y_train)[1] = Val(y_train)[2]

\* ===================================================================== C4
\* C4: one mapping serves encoding and decoding: index_to_language, which
\* predict decodes with, is the inverse of lang2idx, which encode_labels
\* encoded the training labels with.
C4_DecodingInvertsEncoding ==
    (IsSet(lang2idx) /\ IsSet(index_to_language)) =>
        Val(index_to_language) = invert(Val(lang2idx))

\* ===================================================================== C5
\* C5 as claimed: an evaluation label that is not among the training labels
\* makes the encoding of the evaluation labels raise an error.
C5_UnseenEvalLabelRaises ==
    (last_cell.cell = "dataset"
        /\ Range(Val(y_test)) \ Range(Val(y_train)) # {}) =>
            last_cell.raised # NoException

\* The 0-based position of a label in the sorted vocabulary.
PositionInVocabulary(l) ==
    Cardinality({v \in Vocabulary : StrLess(v, l)})

\* C5 as amended: an evaluation label that is not among the training labels
\* is encoded without error, with its index in the sorted union of both
\* label sets; encode_labels raises KeyError exactly when a label occurs in
\* neither y_train nor y_test.
C5_UnseenEvalLabelIndexed ==
    /\ last_cell.cell = "dataset" =>
          /\ last_cell.raised = NoException
          /\ IsSet(test_labels)
          /\ \A i \in 1..Len(Val(y_test)) :
                Val(y_test)[i] \notin Range(Val(y_train)) =>
                    Val(test_labels)[i] = PositionInVocabulary(Val(y_test)[i])
    /\ last_cell.cell = "encode_labels" =>
          (last_cell.raised = "KeyError"
              <=> \E i \in 1..Len(last_cell.labels) :
                      last_cell.labels[i] \notin Vocabulary)

\* The dataset cell has run on evaluation labels of which one is unseen in
\* training and sorts before a training label.
C5_Witness ==
    /\ last_cell.cell = "dataset"
    /\ IsSet(test_labels)
    /\ \E i \in 1..Len(Val(y_test)) :
          /\ Val(y_test)[i] \notin Range(Val(y_train))
          /\ \E j \in 1..Len(Val(y_train)) : StrLess(Val(y_test)[i], Val(y_train)[j])

\* ===================================================================== C6
\* C6: the vocabulary covers both splits, so encode_labels returns one index
\* per label of y_train and of y_test, in input order; for a label outside
\* the vocabulary it raises and returns no array.
DecodesTo(indices, labels) ==
    /\ Len(indices) = Len(labels)
    /\ \A i \in 1..Len(labels) : Val(all_labels)[indices[i] + 1] = labels[i]

C6_VocabularyCoversBothSplits ==
    /\ IsSet(lang2idx) => Vocabulary \subseteq DOMAIN Val(lang2idx)
    /\ last_cell.cell = "dataset" =>
          /\ last_cell.raised = NoException
          /\ IsSet(train_labels) /\ IsSet(test_labels)
          /\ DecodesTo(Val(train_labels), Val(y_train))
          /\ DecodesTo(Val(test_labels), Val(y_test))
    /\ last_cell.cell = "encode_labels" =>
          IF \E i \in 1..Len(last_cell.labels) : last_cell.labels[i] \notin Vocabulary
          THEN last_cell.raised = "KeyError" /\ last_cell.value = <<>>
          ELSE last_cell.raised = NoException /\ DecodesTo(last_cell.value, last_cell.labels)

\* Both splits are encoded, two labels each, and a later call with a known
\* label followed by an unknown one has raised.
C6_Witness ==
    /\ IsSet(train_labels) /\ IsSet(test_labels)
    /\ Len(Val(train_labels)) = 2 /\ Len(Val(test_labels)) = 2
    /\ Val(train_labels)[1] > Val(train_labels)[2]
    /\ last_cell.cell = "encode_labels"
    /\ last_cell.raised = "KeyError"
    /\ Len(last_cell.labels) = 2
    /\ last_cell.labels[1] \in Vocabulary

\* ===================================================================== C7
\* C7: the accuracy predict_and_evaluate returns is the number of positions i
\* at which the label predicted for X[i] equals y[i], divided by the number
\* of samples; for five samples of which three are predicted right it is
\* 3/5 = 0.6 (6/10).
PredictedLabel(text, vectorizer_type) ==
    predict_language(text, ArtifactOf(vectorizer_type), vectorizer_type).value

Matches(vectorizer_type) ==
    {i \in 1..Len(Val(X_test)) :
        PredictedLabel(Val(X_test)[i], vectorizer_type) = Val(y_test)[i]}

C7_AccuracyIsFractionCorrect ==
    (IsSet(evaluation) /\ Val(evaluation).raised = NoException /\ Len(Val(X_test)) >= 1) =>
        LET ev == Val(evaluation)
            m  == Cardinality(Matches(ev.vectorizer_type))
        IN  /\ ev.value.total = Len(Val(X_test))
            /\ ev.value.correct = m
            /\ (Len(Val(X_test)) = 5 /\ m = 3) =>
                  ev.value.correct * 10 = 6 * ev.value.total

\* The five-sample split evaluated with three right and two wrong predictions.
C7_Witness ==
    /\ IsSet(evaluation)
    /\ Val(X_test) = FiveTexts /\ Val(y_test) = FiveLabels
    /\ Val(evaluation).raised = NoException
    /\ Val(evaluation).predictions = <<English, French, English, English, French>>
    /\ Val(evaluation).value = [correct |-> 3, total |-> 5]

\* ===================================================================== C8
\* C8: predict_language with vectorizer_type 'tfidf' returns the label the
\* fitted TF-IDF pipeline predicts for the text, so that predict_and_evaluate
\* with 'tfidf' collects one predicted label per text.
C8_TfidfPredictsWithPipeline ==
    /\ (IsSet(prediction) /\ Val(prediction).vectorizer_type = "tfidf") =>
          /\ Val(prediction).raised = NoException
          /\ Val(prediction).value = pipeline_predict(Val(model_tfidf), Val(prediction).text)
    /\ (IsSet(evaluation) /\ Val(evaluation).vectorizer_type = "tfidf") =>
          /\ Len(Val(evaluation).predictions) = Len(Val(X_test))
          /\ \A i \in 1..Len(Val(X_test)) :
                Val(evaluation).predictions[i] = pipeline_predict(Val(model_tfidf), Val(X_test)[i])

\* ===================================================================== C9
\* C9: in predict_and_evaluate the failure of the prediction of one sample
\* aborts the run: the exception of the first failing sample surfaces, no
\* accuracy is returned, no accuracy line is printed, and predict_language
\* has been called once for each sample up to the failing one and for none
\* after it (no retry, no skipping).
FailingSamples(vectorizer_type) ==
    {i \in 0..(Len(Val(X_test)) - 1) :
        predict_language(Val(X_test)[i + 1], ArtifactOf(vectorizer_type),
                         vectorizer_type).raised # NoException}

FirstFailing(vectorizer_type) ==
    CHOOSE i \in FailingSamples(vectorizer_type) :
        \A j \in FailingSamples(vectorizer_type) : i <= j

C9_FailureAborts ==
    IsSet(evaluation) =>
        LET ev == Val(evaluation)
        IN  FailingSamples(ev.vectorizer_type) # {} =>
                LET k == FirstFailing(ev.vectorizer_type)
                IN  /\ ev.raised # NoException
                    /\ ev.value = None
                    /\ \A i \in 1..Len(ev.printed) : ev.printed[i].line # "Accuracy"
                    /\ ev.calls = [j \in 1..(k + 1) |-> j - 1]
                    /\ Len(ev.predictions) = k

\* Two samples of which the first has no known token: the run ended with the
\* exception after one call of predict_language.
C9_Witness ==
    /\ IsSet(evaluation) /\ IsSet(word2vec)
    /\ Val(evaluation).vectorizer_type = "word2vec"
    /\ Len(Val(X_test)) = 2
    /\ Val(X_test)[1] = TextXxNo /\ Val(X_test)[2] = TextHiYo
    /\ Val(evaluation).raised = "ValueError"
    /\ Val(evaluation).calls = <<0>>

\* ==================================================================== C10
\* C10: predict_language with vectorizer_type 'word2vec' ends with an error
\* and returns no label when no token of the text is in the embedding
\* vocabulary, the text without tokens included.
EmbeddingVocabulary == IF IsSet(word2vec) THEN DOMAIN Val(word2vec) ELSE {}

NoTokenKnown(text) ==
    Range(word_tokenize(lower(text))) \cap EmbeddingVocabulary = {}

C10_UnknownTokensRaise ==
    (IsSet(prediction)
        /\ Val(prediction).vectorizer_type = "word2vec"
        /\ NoTokenKnown(Val(prediction).text)) =>
            /\ Val(prediction).raised # NoException
            /\ Val(prediction).value = None

\* With the embedding assigned, a text of two unknown tokens.
C10_Witness ==
    /\ IsSet(prediction) /\ IsSet(word2vec)
    /\ Val(prediction).vectorizer_type = "word2vec"
    /\ Val(prediction).text = TextXxNo
    /\ Val(prediction).raised = "ValueError"

\* ==================================================================== C16
\* C16: load_data_sample ends with an error and returns no sample whenever
\* sample_size exceeds the number of lines of the file, the empty file with
\* a positive sample_size included.
Calls ==
    {Val(c).call : c \in {g \in {first_call, later_call} : IsSet(g)}}

C16_OversizedSampleRaises ==
    \A c \in Calls :
        c.sample_size > Len(files[c.filepath]) =>
            /\ c.raised = "ValueError"
            /\ c.sampled_lines = <<>>
            /\ c.sampled_indices = <<>>

\* One call on a file of one line with sample_size 2 and one on an empty
\* file with sample_size 1, both ended with ValueError.
C16_Witness ==
    /\ IsSet(first_call) /\ IsSet(later_call)
    /\ Len(files[Val(first_call).call.filepath]) = 1
    /\ Val(first_call).call.sample_size = 2
    /\ Val(first_call).call.raised = "ValueError"
    /\ Len(files[Val(later_call).call.filepath]) = 0
    /\ Val(later_call).call.sample_size = 1
    /\ Val(later_call).call.raised = "ValueError"

\* ==================================================================== C17
\* C17: a load_data_sample call changes nothing but its own outcome: the
\* files, the notebook globals and the state of the shared random number
\* generator are after the call what they were before it.
LoadDataSampleStep == first_call' # first_call \/ later_call' # later_call

IsStripOf(content, line) ==
    /\ content = <<>> \/ (Head(content) \notin Whitespace
                          /\ content[Len(content)] \notin Whitespace)
    /\ \E i \in 0..Len(line), j \in 0..Len(line) :
          /\ i <= j
          /\ content = SubSeq(line, i + 1, j)
          /\ \A k \in (1..i) \cup ((j + 1)..Len(line)) : line[k] \in Whitespace

C18_SampleWithoutReplacement ==
    \A c \in Calls :
        (0 <= c.sample_size /\ c.sample_size <= Len(files[c.filepath])) =>
            /\ c.raised = NoException
            /\ Len(c.sampled_lines) = c.sample_size
            /\ Len(c.sampled_indices) = c.sample_size
            /\ \A i \in 1..c.sample_size :
                  /\ c.sampled_indices[i] \in 0..(Len(files[c.filepath]) - 1)
                  /\ IsStripOf(c.sampled_lines[i],
                               files[c.filepath][c.sampled_indices[i] + 1])
            /\ \A i, j \in 1..c.sample_size :
                  i # j => c.sampled_indices[i] # c.sampled_indices[j]

\* A sample of all three lines of a text file whose lines carry whitespace.
C18_Witness ==
    /\ IsSet(first_call)
    /\ Val(first_call).call.filepath = train_data_path
    /\ Len(files[train_data_path]) = 3
    /\ Val(first_call).call.sample_size = 3
    /\ Val(first_call).call.raised = NoException
    /\ Range(Val(first_call).call.sampled_lines) =
          {<<"h", "i">>, <<"y", "o">>, <<"o", "k">>}

\* ==================================================================== C11
\* C11 (as stated): Pipeline A evaluates the fine-tuned model before it
\* saves model and tokenizer, saves before it reloads from ./final_model,
\* and reloads before any predict call.
Saved == IsSet(disk[final_model_path])

CellsRun ==
    {NotebookA[j] : j \in {i \in 1..Len(NotebookA) :
        \E k \in i..Len(NotebookA) : NotebookA[k] = last_cell.cell}}

Batch == {strip(TextCorpus[1]), strip(TextCorpus[2]), strip(TextCorpus[6]), english_text}

PredictionIndex(m, tok, text) ==
    LET inputs == tokenizer_call(tok, <<text>>)
    IN  argmax(forward(m, inputs.input_ids[1], inputs.attention_mask[1]))

C15_ArtifactIndependentOfTrialRun ==
    /\ (last_cell.cell = "train" /\ last_cell.raised = NoException) =>
          Val(bert_model) = Trainer_train(PretrainedModel, Val(trainer).train_dataset)
    /\ (Saved /\ IsSet(trainer)) =>
          from_pretrained(Val(disk[final_model_path]))
              = Trainer_train(PretrainedModel, Val(trainer).train_dataset)

\* ==================================================================== C19
\* C19: the predict cell yields exactly one label: predict encodes the text
\* with the tokenizer passed to it and returns index_to_language at the
\* argmax of the logits of the model passed to it.
C19_PredictReturnsLabel ==
    last_cell.cell = "predict" =>
        /\ last_cell.raised = NoException
        /\ IsSet(predicted_language)
        /\ Val(predicted_language) =
              Val(index_to_language)[PredictionIndex(Val(loaded_model),
                                                     Val(loaded_tokenizer), english_text)]

\* ==================================================================== C12
\* C12: in Pipelines B and C the artifact file is written by the pipeline,
\* from the model it trained, before a cell downloads or loads that file.
WrittenFrom(path, artifact) ==
    /\ IsSet(artifact)
    /\ disk[path] = Bound([pickle |-> Val(artifact)])

C12_ArtifactWrittenBeforeUse ==
    /\ last_cell.cell \in {"download_tfidf", "load_tfidf"} =>
          /\ last_cell.raised = NoException
          /\ WrittenFrom(tfidf_joblib, model_tfidf)
    /\ last_cell.cell = "download_word2vec" =>
          /\ last_cell.raised = NoException
          /\ WrittenFrom(word2vec_joblib, model_word2vec)

\* ==================================================================== C14
\* C14: train_and_tune_model(X_train, y_train, 'word2vec') returns an
\* artifact, and the artifact holds the word-embedding lookup that
\* vectorizes a new text.
C14_ArtifactBundlesEmbedding ==
    /\ last_cell.cell \in {"word2vec", "download_word2vec"} => IsSet(model_word2vec)
    /\ IsSet(model_word2vec) => "word2vec" \in DOMAIN Val(model_word2vec)

C21_OneVectorPerSentence ==
    last_cell.cell = "word2vec" =>
        LET X_train_transformed == word2vec_transform(Val(X_train))
        IN  /\ X_train_transformed.raised = NoException
            /\ X_train_transformed.value.type = "ndarray"
            /\ Len(X_train_transformed.value.rows) = Len(Val(X_train))
            /\ last_cell.raised = NoException
            /\ IsSet(model_word2vec)

\* ==================================================================== C22
\* C22: trained with train_and_tune_model(.., 'tfidf') on the English
\* sentence "hello world" and the French sentence "bonjour le monde", the
\* n-gram classifier predicts English for "hello there".
C22_PairTrainedPredictsEnglish ==
    (/\ X_train = Bound(PairTexts)
     /\ y_train = Bound(PairLabels)
     /\ last_cell.cell = "tfidf") =>
        /\ IsSet(model_tfidf)
        /\ predict_language(TextHelloThere, Val(model_tfidf), "tfidf")
              = [raised |-> NoException, value |-> English]

\* ==================================================================== C27
\* C27: while word2vec_transform trains the Word2Vec model the EpochLogger
\* callback runs at the end of every epoch: the messages printed carry the
\* epoch numbers 0, 1, 2, ... in order, one per epoch.
IsEpochLine(l) == l.line = "Epoch completed"

EpochLines == SelectSeq(stdout, IsEpochLine)

C27_EpochLoggerLogsEveryEpoch ==
    (last_cell.cell = "word2vec" /\ last_cell.raised # "RuntimeError") =>
        /\ Len(EpochLines) >= epochs
        /\ \A k \in 1..Len(EpochLines) : EpochLines[k].epoch = k - 1

\* ==================================================================== C23
\* C23: the class indices of the transformer and the label mappings agree
\* in size: every index encode_labels produced is below the model's
\* num_labels, and every class index the model can output is a key of
\* index_to_language.
ClassIndices(m) == 0..(m.num_labels - 1)

C23_ClassIndicesCovered ==
    /\ (IsSet(bert_model) /\ IsSet(train_labels)) =>
          \A i \in 1..Len(Val(train_labels)) :
              Val(train_labels)[i] \in ClassIndices(Val(bert_model))
    /\ (IsSet(bert_model) /\ IsSet(test_labels)) =>
          \A i \in 1..Len(Val(test_labels)) :
              Val(test_labels)[i] \in ClassIndices(Val(bert_model))
    /\ (IsSet(loaded_model) /\ IsSet(index_to_language)) =>
          ClassIndices(Val(loaded_model)) \subseteq DOMAIN Val(index_to_language)

\* ==================================================================== C24
\* C24: the embedding-based predictor skips the tokens the embedding
\* vocabulary lacks: for a text with at least one token of the vocabulary
\* the classifier is given the mean over exactly the occurrences of
\* vocabulary tokens (a repeated token counted once per occurrence), and
\* adding or removing tokens outside the vocabulary leaves the prediction
\* unchanged.
Tokens(text) == word_tokenize(lower(text))

KnownPositions(text) ==
    {i \in 1..Len(Tokens(text)) : Tokens(text)[i] \in EmbeddingVocabulary}

RECURSIVE SumAt(_, _)
SumAt(text, positions) ==
    IF positions = {} THEN ZeroVector
    ELSE LET i == CHOOSE j \in positions : TRUE
         IN  VecAdd(Val(word2vec)[Tokens(text)[i]], SumAt(text, positions \ {i}))

MeanOfKnown(text) ==
    [nan |-> FALSE, sum |-> SumAt(text, KnownPositions(text)),
     n |-> Cardinality(KnownPositions(text))]

\* The text with the tokens outside the vocabulary removed ...
RECURSIVE JoinKnown(_, _)
JoinKnown(tokens, text) ==
    IF tokens = <<>> THEN text
    ELSE IF Head(tokens) \in EmbeddingVocabulary
         THEN JoinKnown(Tail(tokens),
                        IF text = <<>> THEN Head(tokens) ELSE (text \o <<" ">>) \o Head(tokens))
         ELSE JoinKnown(Tail(tokens), text)

\* ... and with one added at either end.
UnknownToken == <<"x", "x">>

C24_UnknownTokensSkipped ==
    (/\ IsSet(prediction)
     /\ Val(prediction).vectorizer_type = "word2vec"
     /\ KnownPositions(Val(prediction).text) # {}) =>
        LET p == Val(prediction)
            m == Val(model_word2vec)
        IN  /\ UnknownToken \notin EmbeddingVocabulary
            /\ p.raised = NoException
            /\ p.value = classifier_predict(m, MeanOfKnown(p.text)).value
            /\ p.value = predict_language(JoinKnown(Tokens(p.text), <<>>), m, "word2vec").value
            /\ p.value = predict_language((p.text \o <<" ">>) \o UnknownToken, m, "word2vec").value
            /\ p.value = predict_language((UnknownToken \o <<"\n">>) \o p.text, m, "word2vec").value

\* A prediction for "Hi xx", one known token and one unknown, and the
\* classifier whose answer depends on the mean.
C24_Witness ==
    /\ IsSet(prediction)
    /\ Val(prediction).vectorizer_type = "word2vec"
    /\ Val(prediction).text = TextHiXx
    /\ Cardinality(KnownPositions(TextHiXx)) = 1
    /\ Len(Tokens(TextHiXx)) = 2
    /\ Val(prediction).raised = NoException
    /\ Val(prediction).value = English

BuiltAligned(dataset, X, y) ==
    /\ LanguageDataset_len(dataset) = Len(y)
    /\ Len(X) = Len(y)
    /\ \A key \in DOMAIN dataset.encodings : Len(dataset.encodings[key]) = Len(y)

\* The ids of the tokens of a text, without the padding.
RealTokens(item) ==
    SelectSeq(item.input_ids.tensor, LAMBDA id : id # TokenId(Val(tokenizer), PadToken))

ItemOf(item, dataset, X, y, idx) ==
    /\ DOMAIN item = DOMAIN dataset.encodings \cup {"labels"}
    /\ \A key \in DOMAIN dataset.encodings : item[key].tensor = dataset.encodings[key][idx + 1]
    /\ item.labels.tensor = Val(lang2idx)[y[idx + 1]]
    /\ RealTokens(item) = convert_tokens_to_ids(Val(tokenizer), X[idx + 1])

C26_DatasetAligned ==
    /\ IsSet(train_dataset) => BuiltAligned(Val(train_dataset), Val(X_train), Val(y_train))
    /\ IsSet(eval_dataset) => BuiltAligned(Val(eval_dataset), Val(X_test), Val(y_test))
    /\ last_cell.cell = "getitem" =>
          LET dataset == Val(DatasetOf(last_cell.dataset))
              X == IF last_cell.dataset = "train_dataset" THEN Val(X_train) ELSE Val(X_test)
              y == IF last_cell.dataset = "train_dataset" THEN Val(y_train) ELSE Val(y_test)
          IN  IF last_cell.idx < LanguageDataset_len(dataset)
              THEN /\ last_cell.raised = NoException
                   /\ ItemOf(last_cell.value, dataset, X, y, last_cell.idx)
              ELSE last_cell.raised = "IndexError"

\* The second item of a training set of two languages was read.
C26_Witness ==
    /\ last_cell.cell = "getitem"
    /\ last_cell.dataset = "train_dataset"
    /\ last_cell.idx = 1
    /\ last_cell.raised = NoException
    /\ Val(y_train)[1] # Val(y_train)[2]
    /\ last_cell.value.labels.tensor = Val(lang2idx)[Val(y_train)[2]]

====
